---- MODULE Spec2Model ----
(***************************************************************************)
(* Face clustering and identity-matching pipeline of facify-back:          *)
(* utils/face.py (embedding extraction, incremental clustering, cluster    *)
(* merge, cluster-to-user matching, DBSCAN backfill), tasks/face.py (the   *)
(* Celery task and its retry) and the upload handlers that enqueue it.     *)
(*                                                                         *)
(* Embedding vectors are 3-dimensional integer vectors; a centroid is the  *)
(* exact rational vector num/den, so that "mean of the members" is exact.  *)
(* Cosine similarities are compared exactly by cross-multiplication.       *)
(* Tables are sequences indexed by primary key; unordered SELECTs are      *)
(* taken in ascending primary-key order.                                   *)
(***************************************************************************)
EXTENDS Integers, Sequences, FiniteSets, TLC

VARIABLES
    media,          \* Media joined with its MediaUsage row, by media id
    tasks,          \* embed_media task per media: number of executions so far
    embeddings,     \* FaceEmbedding table, by id
    clusters,       \* FaceCluster table, by id
    face_matches,   \* FaceMatch table
    media_embeddings, \* MediaEmbedding table
    participants,   \* EventParticipant table
    retro_tasks,    \* the enqueued retroactive match tasks
    http,           \* the call of safe_request in progress
    jobs,           \* the runs that are between two of their steps
    emitted,        \* notifications enqueued by the last operation
    last,           \* what the last operation was and the states it went through
    faces_nulled    \* what the flush of session.delete(cluster) leaves in the
                    \* cluster_id of the rows of that cluster: NULL, or what the
                    \* caller has assigned before the flush

rematch_vars == <<face_matches, media_embeddings, participants, retro_tasks>>

vars == <<media, tasks, embeddings, clusters, rematch_vars, http, jobs, emitted, last, faces_nulled>>

-----------------------------------------------------------------------------
(* Bounds *)

MaxMedia == 1
MaxMediaCluster == 2
MaxMediaMatch == 3
MaxRunsMatch == 1
MaxRunsCluster == 1
MaxClusterRows == 10
MaxMediaDelete == 2
MaxRunsDelete == 1
MaxRetroTasks == 2
MaxMediaScope == 3
MaxRunsScope == 1
MaxMediaRace == 2
MaxMediaFold == 4
MaxRunsFold == 1
MaxMediaStages == 3
MaxRunsStages == 1

-----------------------------------------------------------------------------
(* Program constants *)

MaxRetries == 3
CLUSTER_SIMILARITY_THRESHOLD == 68
AssignmentDelta == 3
MergeThreshold == 72
USER_MATCH_SIMILARITY == 72
DbscanEps == 32
DbscanMinSamples == 2

Events == {1}
TwoEvents == {1, 2}
Users == {1, 2}
EventOwner(e) == 1

ProfileUsages == {"profile_picture", "profile_picture_angle", "profile_picture_archived"}

-----------------------------------------------------------------------------
(* Vectors *)

NonFinite == 999          \* stands for a NaN / Inf component
NoVec == <<>>             \* a missing (None / empty) embedding

Zero == <<0, 0, 0>>
BadVec == <<NonFinite, 0, 0>>

Abs(x) == IF x < 0 THEN 0 - x ELSE x
Sgn(x) == IF x < 0 THEN 0 - 1 ELSE IF x = 0 THEN 0 ELSE 1

RECURSIVE GCD(_, _)
GCD(a, b) == IF b = 0 THEN a ELSE GCD(b, a % b)

Dot(a, b) == a[1] * b[1] + a[2] * b[2] + a[3] * b[3]
Norm2(a) == Dot(a, a)

\* the shortest integer vector in the direction of v
Prim(v) ==
    LET g == GCD(GCD(Abs(v[1]), Abs(v[2])), Abs(v[3]))
    IN  IF g = 0 THEN v ELSE <<v[1] \div g, v[2] \div g, v[3] \div g>>

\* (pct/100)^2 as a fraction in lowest terms
SqNum(pct) == (pct * pct) \div GCD(pct * pct, 10000)
SqDen(pct) == 10000 \div GCD(pct * pct, 10000)

\* a validation that looks at the length only
validate_embedding_length(v) ==
    Len(v) > 0

validate_embedding(v) ==
    /\ Len(v) > 0
    /\ \A i \in 1..Len(v) : v[i] # NonFinite

\* cosine_similarity(a, b) >= pct/100, for pct > 0; a zero vector has similarity 0
CosGE(a, b, pct) ==
    LET pa == Prim(a)
        pb == Prim(b)
    IN  /\ Norm2(pa) > 0
        /\ Norm2(pb) > 0
        /\ Dot(pa, pb) >= 0
        /\ SqDen(pct) * Dot(pa, pb) * Dot(pa, pb) >= SqNum(pct) * Norm2(pa) * Norm2(pb)

\* cosine_similarity(v, c1) < cosine_similarity(v, c2)
CosLess(v, c1, c2) ==
    LET p1 == Prim(c1)
        p2 == Prim(c2)
        pv == Prim(v)
        d1 == IF Norm2(p1) = 0 THEN 0 ELSE Dot(pv, p1)
        d2 == IF Norm2(p2) = 0 THEN 0 ELSE Dot(pv, p2)
        n1 == IF Norm2(p1) = 0 THEN 1 ELSE Norm2(p1)
        n2 == IF Norm2(p2) = 0 THEN 1 ELSE Norm2(p2)
    IN  Sgn(d1) * d1 * d1 * n2 < Sgn(d2) * d2 * d2 * n1

\* the rational vector num/den in lowest terms
Reduce(num, den) ==
    LET g == GCD(GCD(GCD(Abs(num[1]), Abs(num[2])), Abs(num[3])), den)
    IN  [num |-> <<num[1] \div g, num[2] \div g, num[3] \div g>>, den |-> den \div g]

\* vec.tolist() stored as a centroid
AsCentroid(v) == [num |-> v, den |-> 1]

\* two rational vectors are the same vector
SameVector(c1, c2) ==
    /\ c1.num[1] * c2.den = c2.num[1] * c1.den
    /\ c1.num[2] * c2.den = c2.num[2] * c1.den
    /\ c1.num[3] * c2.den = c2.num[3] * c1.den

-----------------------------------------------------------------------------
(* Rows *)

NoCluster == [alive |-> FALSE, centroid |-> AsCentroid(Zero), user_id |-> 0, event_id |-> 0]
NoEmbedding == [media_id |-> 0, idx |-> 0 - 1, embedding |-> NoVec, cluster_id |-> 0, status |-> "pending"]

\* body evaluated with x bound to a value computed once
With(x, body(_)) == body(x)

MediaEvent(m) ==
    IF media[m].owner_type = "event" THEN media[m].owner_id ELSE 0

\* ids of the rows of a table that satisfy P, ascending
RECURSIVE SortedSeq(_)
SortedSeq(S) ==
    IF S = {} THEN <<>>
    ELSE LET x == CHOOSE y \in S : \A z \in S : y <= z
         IN  <<x>> \o SortedSeq(S \ {x})

RECURSIVE VecSum(_, _)
VecSum(E, S) ==
    IF S = {} THEN Zero
    ELSE LET i == CHOOSE y \in S : TRUE
             r == VecSum(E, S \ {i})
         IN  <<E[i].embedding[1] + r[1], E[i].embedding[2] + r[2],
               E[i].embedding[3] + r[3]>>

\* member rows that update_cluster_centroid averages
CentroidMembers(E, cid) ==
    {i \in DOMAIN E :
        /\ E[i].cluster_id = cid
        /\ E[i].media_id # 0
        /\ media[E[i].media_id].owner_type = "event"
        /\ media[E[i].media_id].usage_type \notin ProfileUsages
        /\ validate_embedding(E[i].embedding)}

MeanOf(E, S) == Reduce(VecSum(E, S), Cardinality(S))

\* update_cluster_centroid that leaves the stored centroid as it is
update_cluster_centroid_stale(E, C, cid) == C

update_cluster_centroid(E, C, cid) ==
    LET S == CentroidMembers(E, cid)
    IN  IF S = {} THEN C
        ELSE [C EXCEPT ![cid].centroid = MeanOf(E, S)]

RECURSIVE UpdateCentroids(_, _, _)
UpdateCentroids(E, C, ids) ==
    IF ids = <<>> THEN C
    ELSE UpdateCentroids(E, update_cluster_centroid(E, C, Head(ids)), Tail(ids))

create_cluster_safely(C, vec, event_id) ==
    Append(C, [alive |-> TRUE, centroid |-> AsCentroid(vec), user_id |-> 0, event_id |-> event_id])

-----------------------------------------------------------------------------
(* merge_similar_clusters *)

\* the clusters of every event
AllClusters(C, e) == SortedSeq({c \in DOMAIN C : C[c].alive})

\* select(FaceCluster).where(FaceCluster.event_id == event_id)
EventClusters(C, e) == SortedSeq({c \in DOMAIN C : C[c].alive /\ C[c].event_id = e})

ValidClusters(C, e) ==
    SelectSeq(EventClusters(C, e), LAMBDA c : validate_embedding(C[c].centroid.num))

\* MergeInto that takes the threshold for a cosine distance
MergeIntoByDistance(C0, valid, merged, i) ==
    {j \in (i + 1)..Len(valid) :
        /\ j \notin merged
        /\ CosGE(C0[valid[i]].centroid.num, C0[valid[j]].centroid.num, 100 - MergeThreshold)}

\* positions j > i of valid that the pass folds into position i
MergeInto(C0, valid, merged, i) ==
    {j \in (i + 1)..Len(valid) :
        /\ j \notin merged
        /\ CosGE(C0[valid[i]].centroid.num, C0[valid[j]].centroid.num, MergeThreshold)}

InheritedUser(C, valid, J) ==
    LET withUser == {j \in J : C[valid[j]].user_id # 0}
    IN  IF withUser = {} THEN 0
        ELSE C[valid[CHOOSE j \in withUser : \A k \in withUser : j <= k]].user_id

\* a survivor that takes the user of a folded cluster whenever there is one
SurvivorUserOverwritten(C, valid, ci, J) ==
    IF InheritedUser(C, valid, J) # 0 THEN InheritedUser(C, valid, J) ELSE C[ci].user_id

\* if cluster_j.user_id and not cluster_i.user_id: cluster_i.user_id = cluster_j.user_id
SurvivorUser(C, valid, ci, J) ==
    IF C[ci].user_id # 0 THEN C[ci].user_id ELSE InheritedUser(C, valid, J)

\* The loop over i of merge_similar_clusters.  The rows of cluster_j get
\* cluster_id = cluster_i.id and cluster_j is deleted in the same flush.
\* FaceCluster.faces is a plain one-to-many relationship (no delete cascade, no
\* passive_deletes), so that flush loads cluster_j.faces and de-associates its
\* rows by setting their cluster_id to NULL; faces_nulled tells whether that is
\* what the rows end with, or the id the loop has assigned.
RECURSIVE merge_pass(_, _, _, _, _, _)
merge_pass(E, C, C0, valid, merged, i) ==
    IF i > Len(valid)
    THEN [E |-> E, C |-> C, merged |-> {valid[j] : j \in merged}]
    ELSE IF i \in merged THEN merge_pass(E, C, C0, valid, merged, i + 1)
    ELSE LET J == MergeInto(C0, valid, merged, i)
             gone == {valid[j] : j \in J}
             ci == valid[i]
             E1 == [k \in DOMAIN E |->
                      IF E[k].cluster_id \in gone
                      THEN [E[k] EXCEPT !.cluster_id = IF faces_nulled THEN 0 ELSE ci]
                      ELSE E[k]]
             C1 == [k \in DOMAIN C |->
                      IF k \in gone THEN NoCluster
                      ELSE IF k = ci
                      THEN [C[k] EXCEPT !.user_id = SurvivorUser(C, valid, ci, J)]
                      ELSE C[k]]
             C2 == update_cluster_centroid(E1, C1, ci)
         IN  merge_pass(E1, C2, C0, valid, merged \cup J, i + 1)

merge_similar_clusters(E, C, e) ==
    LET valid == ValidClusters(C, e)
    IN  IF Len(EventClusters(C, e)) < 2 \/ Len(valid) < 2
        THEN [E |-> E, C |-> C, merged |-> {}]
        ELSE merge_pass(E, C, C, valid, {}, 1)

-----------------------------------------------------------------------------
(* cluster_embeddings_for_media *)

AssignmentThreshold == CLUSTER_SIMILARITY_THRESHOLD - AssignmentDelta

\* BestIdx that takes the first centroid
BestIdxFirst(vec, cents) == 1

\* int(np.argmax(sims)): the first position with the largest similarity
BestIdx(vec, cents) ==
    CHOOSE k \in 1..Len(cents) :
        /\ \A j \in 1..Len(cents) : ~CosLess(vec, cents[k].num, cents[j].num)
        /\ \A j \in 1..(k - 1) : CosLess(vec, cents[j].num, cents[k].num)

RECURSIVE cluster_loop(_, _, _, _, _, _, _, _)
cluster_loop(rows, E, C, ids, cents, upd, trace, event_id) ==
    IF rows = <<>>
    THEN [E |-> E, C |-> C, upd |-> upd, trace |-> trace]
    ELSE
      LET fe == Head(rows)
          vec == E[fe].embedding
          newId == Len(C) + 1
          spawn ==
              cluster_loop(Tail(rows),
                  [E EXCEPT ![fe].cluster_id = newId, ![fe].status = "completed"],
                  create_cluster_safely(C, vec, event_id),
                  Append(ids, newId), Append(cents, AsCentroid(vec)),
                  upd \cup {newId},
                  Append(trace, [emb |-> fe, created |-> TRUE, cluster |-> newId,
                                 ids |-> ids, cents |-> cents]),
                  event_id)
      IN
        IF ~validate_embedding(vec)
        THEN cluster_loop(Tail(rows), E, C, ids, cents, upd, trace, event_id)
        ELSE IF cents = <<>> THEN spawn
        ELSE LET best == BestIdx(vec, cents)
             IN  IF CosGE(vec, cents[best].num, AssignmentThreshold)
                 THEN cluster_loop(Tail(rows),
                        [E EXCEPT ![fe].cluster_id = ids[best], ![fe].status = "completed"],
                        C, ids, cents, upd \cup {ids[best]},
                        Append(trace, [emb |-> fe, created |-> FALSE, cluster |-> ids[best],
                                       ids |-> ids, cents |-> cents]),
                        event_id)
                 ELSE spawn

Unclustered(E, m) == SortedSeq({i \in DOMAIN E : E[i].media_id = m /\ E[i].cluster_id = 0})

cluster_embeddings_for_media(E, C, m) ==
    LET event_id == MediaEvent(m)
        rows == Unclustered(E, m)
        ids == IF event_id # 0 THEN EventClusters(C, event_id) ELSE <<>>
        cents == [k \in 1..Len(ids) |-> C[ids[k]].centroid]
    IN  IF rows = <<>>
        THEN [E |-> E, C |-> C, trace |-> <<>>, merged |-> {}, ran |-> FALSE,
              mgRan |-> FALSE, mgE |-> E, mgC |-> C]
        ELSE With(cluster_loop(rows, E, C, ids, cents, {}, <<>>, event_id), LAMBDA r :
             With(UpdateCentroids(r.E, r.C, SortedSeq(r.upd)), LAMBDA C1 :
             With(IF event_id # 0
                  THEN merge_similar_clusters(r.E, C1, event_id)
                  ELSE [E |-> r.E, C |-> C1, merged |-> {}], LAMBDA mg :
                [E |-> mg.E, C |-> mg.C, trace |-> r.trace, merged |-> mg.merged,
                 ran |-> TRUE, mgRan |-> event_id # 0, mgE |-> r.E, mgC |-> C1])))

-----------------------------------------------------------------------------
(* match_clusters_to_users *)

\* |v| for the enrollment vectors, which all have an integer length
Norm(v) == CHOOSE n \in 0..Norm2(v) : n * n = Norm2(v)
NormScale == Norm(<<2, 2, 1>>)

\* NormScale * |c| * cosine_similarity(c, u); 0 for a zero vector
ScaledCos(c, u) ==
    IF Norm2(u) = 0 \/ Norm2(c) = 0 THEN 0
    ELSE Dot(Prim(c), u) * (NormScale \div Norm(u))

\* rows of user_profile_rows kept in user_embeddings[uid]
UserEmbeddings(E, uid) ==
    {i \in DOMAIN E :
        /\ E[i].media_id # 0
        /\ media[E[i].media_id].owner_type = "user"
        /\ media[E[i].media_id].owner_id = uid
        /\ media[E[i].media_id].usage_type \in ProfileUsages
        /\ Len(E[i].embedding) > 0
        /\ validate_embedding(E[i].embedding)}

RECURSIVE SimSum(_, _, _)
SimSum(E, S, c) ==
    IF S = {} THEN 0
    ELSE LET i == CHOOSE y \in S : TRUE
         IN  ScaledCos(c, E[i].embedding) + SimSum(E, S \ {i}, c)

\* AvgSim that scores a user by the best of the angles
AvgSimMax(E, uid, c) ==
    LET S == UserEmbeddings(E, uid)
    IN  IF S = {} THEN [t |-> 0, n |-> 0]
        ELSE [t |-> ScaledCos(c.num, E[CHOOSE i \in S : \A j \in S :
                        ScaledCos(c.num, E[j].embedding) <= ScaledCos(c.num, E[i].embedding)].embedding),
              n |-> 1]

\* np.mean(sims) of user u against centroid c, as the fraction t / (n * NormScale * |c|)
AvgSim(E, uid, c) == [t |-> SimSum(E, UserEmbeddings(E, uid), c.num),
                      n |-> Cardinality(UserEmbeddings(E, uid))]

AvgLess(a, b) == a.t * b.n < b.t * a.n

\* avg_sim >= pct/100, pct > 0
AvgGE(a, c, pct) ==
    /\ a.t > 0
    /\ Norm2(c.num) > 0
    /\ SqDen(pct) * a.t * a.t
         >= SqNum(pct) * a.n * a.n * NormScale * NormScale * Norm2(Prim(c.num))

\* avg_sim > -1.0, the initial best_sim
AvgAboveFloor(a, c) ==
    ~(a.t < 0 /\ a.t * a.t >= a.n * a.n * NormScale * NormScale * Norm2(Prim(c.num)))

\* best_user after the loop over user_embeddings.items(), taken in the order ord; 0 for None
BestUser(E, c, ord) ==
    LET cand == {k \in 1..Len(ord) :
                    /\ UserEmbeddings(E, ord[k]) # {}
                    /\ AvgAboveFloor(AvgSim(E, ord[k], c), c)}
        best == {k \in cand :
                    /\ \A j \in cand : ~AvgLess(AvgSim(E, ord[k], c), AvgSim(E, ord[j], c))
                    /\ \A j \in cand : j < k => AvgLess(AvgSim(E, ord[j], c), AvgSim(E, ord[k], c))}
    IN  IF best = {} THEN 0 ELSE ord[CHOOSE k \in best : TRUE]

Notification(to, ev, m, cid) == [to |-> to, event |-> ev, media_id |-> m, cluster_id |-> cid]

TouchedClusters(E, m) ==
    {E[i].cluster_id : i \in {k \in DOMAIN E : E[k].media_id = m /\ E[k].cluster_id # 0}}

RECURSIVE match_loop(_, _, _, _, _, _)
match_loop(cids, E, C, m, ord, out) ==
    IF cids = <<>> THEN [C |-> C, out |-> out]
    ELSE
      LET cid == Head(cids)
          c == C[cid].centroid
          best_user == BestUser(E, c, ord)
          event_id == MediaEvent(m)
      IN  IF ~C[cid].alive \/ ~validate_embedding(c.num)
          THEN match_loop(Tail(cids), E, C, m, ord, out)
          ELSE IF /\ best_user # 0
                  /\ AvgGE(AvgSim(E, best_user, c), c, USER_MATCH_SIMILARITY)
                  /\ C[cid].user_id # best_user
          THEN match_loop(Tail(cids), E,
                  [C EXCEPT ![cid].user_id = best_user], m, ord,
                  out \o <<Notification(best_user, "cluster_matched_to_user", m, cid)>>
                      \o (IF event_id # 0 /\ EventOwner(event_id) # 0
                          THEN <<Notification(EventOwner(event_id), "cluster_user_identified", m, cid)>>
                          ELSE <<>>))
          ELSE match_loop(Tail(cids), E, C, m, ord, out)

match_clusters_to_users(E, C, m, ord) ==
    match_loop(SortedSeq(TouchedClusters(E, m)), E, C, m, ord, <<>>)

-----------------------------------------------------------------------------
(* cluster_unclustered_faces_in_event *)

BatchRows(E, e) ==
    {i \in DOMAIN E :
        /\ E[i].media_id # 0
        /\ media[E[i].media_id].owner_type = "event"
        /\ media[E[i].media_id].owner_id = e
        /\ media[E[i].media_id].usage_type \notin ProfileUsages
        /\ E[i].cluster_id = 0
        /\ validate_embedding(E[i].embedding)}

\* cosine distance <= eps
Near(E, i, j) == i = j \/ CosGE(E[i].embedding, E[j].embedding, 100 - DbscanEps)

CorePoints(E, S) ==
    {i \in S : Cardinality({j \in S : Near(E, i, j)}) >= DbscanMinSamples}

RECURSIVE Grow(_, _, _)
Grow(E, S, G) ==
    LET core == CorePoints(E, S)
        G1 == G \cup {j \in S : \E i \in G \cap core : Near(E, i, j)}
    IN  IF G1 = G THEN G ELSE Grow(E, S, G1)

\* DBSCAN groups (label # -1), in the order of their labels
RECURSIVE DbscanGroups(_, _, _)
DbscanGroups(E, S, left) ==
    LET seeds == left \cap CorePoints(E, S)
    IN  IF seeds = {} THEN <<>>
        ELSE LET s == CHOOSE x \in seeds : \A y \in seeds : x <= y
                 G == Grow(E, S, {s}) \cap left
             IN  <<G>> \o DbscanGroups(E, S, left \ G)

RECURSIVE batch_loop(_, _, _, _, _)
batch_loop(groups, E, C, e, out) ==
    IF groups = <<>> THEN [E |-> E, C |-> C, out |-> out]
    ELSE LET G == Head(groups)
             newId == Len(C) + 1
             C1 == Append(C, [alive |-> TRUE, centroid |-> MeanOf(E, G),
                              user_id |-> 0, event_id |-> e])
             E1 == [k \in DOMAIN E |->
                      IF k \in G
                      THEN [E[k] EXCEPT !.cluster_id = newId, !.status = "completed"]
                      ELSE E[k]]
         IN  batch_loop(Tail(groups), E1, C1, e,
                 out \o (IF EventOwner(e) # 0
                         THEN <<Notification(EventOwner(e), "unknown_cluster_created", 0, newId)>>
                         ELSE <<>>))

cluster_unclustered_faces_in_event(E, C, e) ==
    LET S == BatchRows(E, e)
    IN  IF S = {}
        THEN [E |-> E, C |-> C, out |-> <<>>, groups |-> <<>>, merged |-> {},
              mgRan |-> FALSE, mgE |-> E, mgC |-> C]
        ELSE LET groups == DbscanGroups(E, S, S)
                 r == batch_loop(groups, E, C, e, <<>>)
                 mg == merge_similar_clusters(r.E, r.C, e)
             IN  [E |-> mg.E, C |-> mg.C, out |-> r.out, groups |-> groups,
                  merged |-> mg.merged, mgRan |-> TRUE, mgE |-> r.E, mgC |-> r.C]

-----------------------------------------------------------------------------
(* generate_embeddings_background: the rows it inserts *)

\* what the embedding service answers for an image: an error body or a list of faces
Image(err, faces) == [err |-> err, faces |-> faces]

NoFaceImage == Image(TRUE, <<>>)
EmptyImage == Image(FALSE, <<>>)

\* event photos
PhotoA == Image(FALSE, <<<<0, 0, 1>>, <<1, -1, 1>>, <<-2, -2, 2>>, <<0, -1, 2>>>>)
PhotoB == Image(FALSE, <<<<-2, 1, 3>>, <<-3, 3, 0>>, <<-2, 3, 2>>, <<0, 2, 1>>>>)
PhotoC == Image(FALSE, <<<<0, -2, -2>>, <<0, 1, -2>>, <<-1, 0, -1>>, <<0, 0, -2>>, <<1, -2, 0>>>>)
PhotoD == Image(FALSE, <<<<2, 2, 1>>, NoVec, <<1, 2, 2>>, BadVec>>)
PhotoE == Image(FALSE, <<<<1, 0, 0>>>>)
PhotoF == Image(FALSE, <<<<1, 1, 0>>, <<1, 5, 0>>>>)
PhotoG == Image(FALSE, <<<<1, 1, 0>>>>)

\* enrollment captures; every face vector has length NormScale
CaptureA == Image(FALSE, <<<<2, 2, 1>>>>)
CaptureX == Image(FALSE, <<<<3, 0, 0>>>>)
CaptureY == Image(FALSE, <<<<0, 3, 0>>>>)
CaptureB == Image(FALSE, <<<<1, 2, 2>>>>)
CaptureC == Image(FALSE, <<<<2, 1, 2>>, <<0, 0, 3>>>>)

EventImages == {PhotoA, PhotoB, PhotoC, PhotoD, EmptyImage, NoFaceImage}
ProfileImages == {CaptureA, CaptureB, CaptureC}

\* for idx, face in enumerate(faces): the faces that are stored
StoredFaces(faces) ==
    SelectSeq([k \in 1..Len(faces) |-> [idx |-> k - 1, emb |-> faces[k]]],
              LAMBDA f : Len(f.emb) > 0 /\ validate_embedding(f.emb))

InsertEmbeddings(E, m, faces) ==
    LET st == StoredFaces(faces)
    IN  E \o [k \in 1..Len(st) |->
                [media_id |-> m, idx |-> st[k].idx, embedding |-> st[k].emb,
                 cluster_id |-> 0, status |-> "pending"]]

-----------------------------------------------------------------------------
(* State *)

NoMedia == [alive |-> FALSE, owner_type |-> "none", owner_id |-> 0, usage_type |-> "none",
            tags |-> "", uploaded_by |-> 0, face_count |-> 0, image |-> NoFaceImage]

\* the record of the last operation: the tables before it (pre), at the start of
\* its merge pass (mg), and what its loops did
NoOp == [op |-> "init", m |-> 0, e |-> 0, u |-> 0, outcome |-> "none", exc |-> "none",
         preE |-> <<>>, preC |-> <<>>, mgRan |-> FALSE, mgE |-> <<>>, mgC |-> <<>>,
         mtRan |-> FALSE, mtC |-> <<>>, mtOut |-> <<>>,
         trace |-> <<>>, merged |-> {}, groups |-> <<>>]

\* no call of safe_request in progress
NoCall == [script |-> <<>>, attempts |-> 0, state |-> "idle"]

Init ==
    /\ media = <<>>
    /\ tasks = <<>>
    /\ embeddings = <<>>
    /\ clusters = <<>>
    /\ face_matches = {}
    /\ media_embeddings = {}
    /\ participants = {}
    /\ retro_tasks = <<>>
    /\ http = NoCall
    /\ jobs = {}
    /\ emitted = <<>>
    /\ last = NoOp
    /\ faces_nulled \in BOOLEAN

\* save_file_to_db: the Media row, its MediaUsage and the placeholder FaceEmbedding row
save_file_to_db(M, E, owner_type, owner_id, usage_type, user, tags, img) ==
    [M |-> Append(M, [alive |-> TRUE, owner_type |-> owner_type, owner_id |-> owner_id,
                      usage_type |-> usage_type, tags |-> tags, uploaded_by |-> user,
                      face_count |-> 0, image |-> img]),
     E |-> Append(E, [media_id |-> Len(M) + 1, idx |-> 0 - 1, embedding |-> NoVec,
                      cluster_id |-> 0, status |-> "pending"])]

\* delete_media_and_file for every media in olds
delete_media_and_file(M, E, olds) ==
    [M |-> [k \in DOMAIN M |-> IF k \in olds THEN NoMedia ELSE M[k]],
     E |-> [k \in DOMAIN E |-> IF E[k].media_id \in olds THEN NoEmbedding ELSE E[k]]]

\* POST /media for an event gallery
upload_media(e, user, img) ==
    /\ \E r \in {save_file_to_db(media, embeddings, "event", e, "gallery", user, "", img)} :
           /\ media' = r.M
           /\ embeddings' = r.E
    /\ tasks' = Append(tasks, 0)
    /\ emitted' = IF user # EventOwner(e)
                  THEN <<Notification(EventOwner(e), "media_uploaded", 0, 0)>>
                  ELSE <<>>
    /\ last' = [NoOp EXCEPT !.op = "upload_media", !.m = Len(media) + 1, !.e = e]
    /\ UNCHANGED <<jobs, http, clusters, rematch_vars, faces_nulled>>

\* POST face captures: one file with its angle
upload_face_capture(user, angle, img) ==
    /\ LET usage_type == IF angle = "center" THEN "profile_picture" ELSE "profile_picture_angle"
           olds == {k \in DOMAIN media :
                       /\ media[k].alive
                       /\ media[k].owner_type = "user"
                       /\ media[k].owner_id = user
                       /\ media[k].usage_type = usage_type
                       /\ media[k].tags = angle}
           d == delete_media_and_file(media, embeddings, olds)
       IN  \E r \in {save_file_to_db(d.M, d.E, "user", user, usage_type, user, angle, img)} :
               /\ media' = r.M
               /\ embeddings' = r.E
    /\ tasks' = Append(tasks, 0)
    /\ emitted' = <<>>
    /\ last' = [NoOp EXCEPT !.op = "upload_face_capture", !.m = Len(media) + 1]
    /\ UNCHANGED <<jobs, http, clusters, rematch_vars, faces_nulled>>

\* DELETE /media/{media_id} by current_user
delete_media(m, current_user) ==
    /\ m \in DOMAIN media
    /\ media[m].alive
    /\ \/ media[m].uploaded_by = current_user
       \/ media[m].owner_type = "event" /\ EventOwner(media[m].owner_id) = current_user
       \/ media[m].owner_type = "user" /\ media[m].owner_id = current_user
    /\ \E r \in {delete_media_and_file(media, embeddings, {m})} :
           /\ media' = r.M
           /\ embeddings' = r.E
    /\ emitted' = IF media[m].uploaded_by # current_user
                  THEN <<Notification(media[m].uploaded_by, "media_deleted", m, 0)>>
                  ELSE <<>>
    /\ last' = [NoOp EXCEPT !.op = "delete_media", !.m = m, !.e = MediaEvent(m)]
    /\ UNCHANGED <<jobs, http, tasks, clusters, rematch_vars, faces_nulled>>

-----------------------------------------------------------------------------
(* The embed_media task *)

\* orders in which the rows of user_profile_rows can come back
UserOrders == {<<1, 2>>, <<2, 1>>}

\* how a run goes: "ok"; "network": safe_request gives up; "late_error": an
\* exception after the commit of the rows and before clustering
Outcomes == {"ok", "network", "late_error"}

\* an error answer that counts one face
error_answer_counted(none, m, failed) ==
    [none EXCEPT !.way = "no_face", !.out = <<failed>>, !.M[m].face_count = 1]

\* if isinstance(data, dict) and data.get("error"): notify and return
error_answer(none, m, failed) ==
    [none EXCEPT !.way = "no_face", !.out = <<failed>>]

\* a run whose exception is caught with the results r committed so far, with every
\* commit of the run undone
caught_rolled_back(r, way, failed) ==
    [r EXCEPT !.way = way, !.out = <<failed>>,
              !.M = media, !.E = embeddings, !.C = clusters]

\* except Exception: embedding_failed is emitted; what the run has committed (r) stays
caught(r, way, failed) == [r EXCEPT !.way = way, !.out = Append(@, failed)]

\* the places after the commit of the rows where a run can fail: before clustering,
\* before the merge pass, before matching
StageOutcomes == {"ok", "late_error", "merge_error", "match_error"}

\* generate_embeddings_background(session, m, url); way is how the run went, raises
\* the exception that leaves the function ("none": every exception raised inside
\* the try block is caught by its except Exception clause)
generate_embeddings_background(m, outcome, ord) ==
    LET uploader == media[m].uploaded_by
        failed == Notification(uploader, "embedding_failed", m, 0)
        completed == Notification(uploader, "embedding_completed", m, 0)
        img == media[m].image
        none == [M |-> media, E |-> embeddings, C |-> clusters, out |-> <<>>,
                 preE |-> embeddings, mgRan |-> FALSE, mgE |-> <<>>, mgC |-> <<>>,
                 mtRan |-> FALSE, mtC |-> <<>>, mtOut |-> <<>>,
                 trace |-> <<>>, merged |-> {}, way |-> "none", raises |-> "none"]
    IN  IF ~media[m].alive THEN [none EXCEPT !.way = "not_found"]
        ELSE IF outcome = "network" THEN [none EXCEPT !.way = "network", !.out = <<failed>>]
        ELSE IF img.err THEN error_answer(none, m, failed)
        ELSE
          With(InsertEmbeddings(embeddings, m, img.faces), LAMBDA E1 :
          With([media EXCEPT ![m].face_count = Len(StoredFaces(img.faces))], LAMBDA M1 :
          With([none EXCEPT !.M = M1, !.E = E1, !.out = <<completed>>], LAMBDA stored :
            IF outcome = "late_error"
            THEN caught(stored, "late_error", failed)
            ELSE
              With(cluster_embeddings_for_media(E1, clusters, m), LAMBDA cl :
                IF outcome = "merge_error"
                THEN caught([stored EXCEPT !.E = cl.mgE, !.C = cl.mgC, !.preE = E1,
                                           !.trace = cl.trace,
                                           !.mgE = cl.mgE, !.mgC = cl.mgC],
                            "merge_error", failed)
                ELSE IF outcome = "match_error"
                THEN caught([stored EXCEPT !.E = cl.E, !.C = cl.C, !.preE = E1,
                                           !.trace = cl.trace, !.merged = cl.merged,
                                           !.mgRan = cl.mgRan,
                                           !.mgE = cl.mgE, !.mgC = cl.mgC],
                            "match_error", failed)
                ELSE
              With(match_clusters_to_users(cl.E, cl.C, m, ord), LAMBDA mt :
                [M |-> M1, E |-> cl.E, C |-> mt.C, out |-> <<completed>> \o mt.out,
                 preE |-> E1, mgRan |-> cl.mgRan, mgE |-> cl.mgE, mgC |-> cl.mgC,
                 mtRan |-> TRUE, mtC |-> cl.C, mtOut |-> mt.out,
                 trace |-> cl.trace, merged |-> cl.merged, way |-> "ok",
                 raises |-> "none"])))))

\* one execution of the task; awaiting the None that the synchronous
\* generate_embeddings_background returns raises, so every execution ends in self.retry
embed_media(m, outcome, ord) ==
    /\ m \in DOMAIN media
    /\ tasks[m] <= MaxRetries
    /\ \E r \in {generate_embeddings_background(m, outcome, ord)} :
           /\ media' = r.M
           /\ embeddings' = r.E
           /\ clusters' = r.C
           /\ emitted' = r.out
           /\ last' = [NoOp EXCEPT !.op = "embed_media", !.m = m, !.e = MediaEvent(m),
                                   !.outcome = r.way,
                                   !.exc = IF r.raises # "none" THEN r.raises
                                           ELSE "TypeError",
                                   !.preE = r.preE, !.preC = clusters,
                                   !.mgRan = r.mgRan, !.mgE = r.mgE, !.mgC = r.mgC,
                                   !.mtRan = r.mtRan, !.mtC = r.mtC, !.mtOut = r.mtOut,
                                   !.trace = r.trace, !.merged = r.merged]
    /\ tasks' = [tasks EXCEPT ![m] = @ + 1]
    /\ UNCHANGED <<jobs, http, rematch_vars, faces_nulled>>

-----------------------------------------------------------------------------
(* Direct calls of the pipeline stages *)

run_cluster_embeddings_for_media(m) ==
    /\ m \in DOMAIN media
    /\ media[m].alive
    /\ \E r \in {cluster_embeddings_for_media(embeddings, clusters, m)} :
           /\ embeddings' = r.E
           /\ clusters' = r.C
           /\ last' = [NoOp EXCEPT !.op = "cluster_embeddings_for_media", !.m = m,
                                   !.e = MediaEvent(m), !.outcome = "ok",
                                   !.preE = embeddings, !.preC = clusters,
                                   !.mgRan = r.mgRan, !.mgE = r.mgE, !.mgC = r.mgC,
                                   !.trace = r.trace, !.merged = r.merged]
    /\ emitted' = <<>>
    /\ UNCHANGED <<jobs, http, media, tasks, rematch_vars, faces_nulled>>

run_merge_similar_clusters(e) ==
    /\ \E r \in {merge_similar_clusters(embeddings, clusters, e)} :
           /\ embeddings' = r.E
           /\ clusters' = r.C
           /\ last' = [NoOp EXCEPT !.op = "merge_similar_clusters", !.e = e,
                                   !.outcome = "ok",
                                   !.preE = embeddings, !.preC = clusters,
                                   !.mgRan = TRUE, !.mgE = embeddings, !.mgC = clusters,
                                   !.merged = r.merged]
    /\ emitted' = <<>>
    /\ UNCHANGED <<jobs, http, media, tasks, rematch_vars, faces_nulled>>

run_match_clusters_to_users(m, ord) ==
    /\ m \in DOMAIN media
    /\ media[m].alive
    /\ \E r \in {match_clusters_to_users(embeddings, clusters, m, ord)} :
           /\ clusters' = r.C
           /\ emitted' = r.out
           /\ last' = [NoOp EXCEPT !.op = "match_clusters_to_users", !.m = m,
                                   !.e = MediaEvent(m), !.outcome = "ok",
                                   !.preE = embeddings, !.preC = clusters,
                                   !.mtRan = TRUE, !.mtC = clusters, !.mtOut = r.out]
    /\ UNCHANGED <<jobs, http, media, tasks, embeddings, rematch_vars, faces_nulled>>

run_cluster_unclustered_faces_in_event(e) ==
    /\ \E r \in {cluster_unclustered_faces_in_event(embeddings, clusters, e)} :
           /\ embeddings' = r.E
           /\ clusters' = r.C
           /\ emitted' = r.out
           /\ last' = [NoOp EXCEPT !.op = "cluster_unclustered_faces_in_event", !.e = e,
                                   !.outcome = "ok",
                                   !.preE = embeddings, !.preC = clusters,
                                   !.mgRan = r.mgRan, !.mgE = r.mgE, !.mgC = r.mgC,
                                   !.groups = r.groups, !.merged = r.merged]
    /\ UNCHANGED <<jobs, http, media, tasks, rematch_vars, faces_nulled>>

-----------------------------------------------------------------------------
(* Specifications *)

\* the whole system
Next ==
    \/ \E e \in Events, u \in Users, img \in {PhotoD, NoFaceImage} :
          Len(media) < MaxMedia /\ upload_media(e, u, img)
    \/ \E u \in Users, angle \in {"center", "left"}, img \in {CaptureA} :
          Len(media) < MaxMedia /\ upload_face_capture(u, angle, img)
    \/ \E m \in 1..MaxMedia, u \in Users : delete_media(m, u)
    \/ \E m \in 1..MaxMedia, o \in Outcomes, ord \in UserOrders : embed_media(m, o, ord)
    \/ \E m \in 1..MaxMedia :
          Len(clusters) < MaxClusterRows /\ run_cluster_embeddings_for_media(m)
    \/ \E e \in Events : run_merge_similar_clusters(e)
    \/ \E m \in 1..MaxMedia, ord \in UserOrders : run_match_clusters_to_users(m, ord)
    \/ \E e \in Events :
          Len(clusters) < MaxClusterRows /\ run_cluster_unclustered_faces_in_event(e)

Spec == Init /\ [][Next]_vars

\* clustering of event photos: uploads by the event owner, no enrolled user
NextCluster ==
    \/ \E e \in Events, img \in EventImages :
          Len(media) < MaxMediaCluster /\ upload_media(e, EventOwner(e), img)
    \/ \E m \in 1..MaxMediaCluster, o \in {"ok", "late_error"} :
          m \in DOMAIN tasks /\ tasks[m] < MaxRunsCluster /\ embed_media(m, o, <<1, 2>>)
    \/ \E m \in 1..MaxMediaCluster :
          Len(clusters) < MaxClusterRows /\ run_cluster_embeddings_for_media(m)
    \/ \E e \in Events : run_merge_similar_clusters(e)
    \/ \E e \in Events :
          Len(clusters) < MaxClusterRows /\ run_cluster_unclustered_faces_in_event(e)

SpecCluster == Init /\ [][NextCluster]_vars

\* identity matching: enrollment captures, event photos, runs that succeed
NextMatch ==
    \/ \E e \in Events, img \in {PhotoD} :
          Len(media) < MaxMediaMatch /\ upload_media(e, EventOwner(e), img)
    \/ \E u \in Users, img \in ProfileImages :
          Len(media) < MaxMediaMatch /\ upload_face_capture(u, "center", img)
    \/ \E m \in 1..MaxMediaMatch, ord \in UserOrders :
          m \in DOMAIN tasks /\ tasks[m] < MaxRunsMatch /\ embed_media(m, "ok", ord)
    \/ \E m \in 1..MaxMediaMatch, ord \in UserOrders : run_match_clusters_to_users(m, ord)

SpecMatch == Init /\ [][NextMatch]_vars

\* a gallery whose photos are processed once and can be deleted
NextDelete ==
    \/ \E e \in Events, img \in {PhotoE, PhotoF} :
          Len(media) < MaxMediaDelete /\ upload_media(e, EventOwner(e), img)
    \/ \E m \in 1..MaxMediaDelete :
          m \in DOMAIN tasks /\ tasks[m] < MaxRunsDelete /\ embed_media(m, "ok", <<1, 2>>)
    \/ \E m \in 1..MaxMediaDelete : delete_media(m, EventOwner(1))
    \/ \E m \in 1..MaxMediaDelete :
          Len(clusters) < MaxClusterRows /\ run_cluster_embeddings_for_media(m)
    \/ \E e \in Events : run_merge_similar_clusters(e)

SpecDelete == Init /\ [][NextDelete]_vars

\* two galleries and a profile picture, processed, merged and re-clustered
NextScope ==
    \/ \E e \in TwoEvents, img \in {PhotoE, PhotoF} :
          Len(media) < MaxMediaScope /\ upload_media(e, EventOwner(e), img)
    \/ \E u \in {1} :
          Len(media) < MaxMediaScope /\ upload_face_capture(u, "center", CaptureA)
    \/ \E m \in 1..MaxMediaScope :
          m \in DOMAIN tasks /\ tasks[m] < MaxRunsScope /\ embed_media(m, "ok", <<1, 2>>)
    \/ \E m \in 1..MaxMediaScope :
          Len(clusters) < MaxClusterRows /\ run_cluster_embeddings_for_media(m)
    \/ \E e \in TwoEvents : run_merge_similar_clusters(e)
    \/ \E e \in TwoEvents :
          Len(clusters) < MaxClusterRows /\ run_cluster_unclustered_faces_in_event(e)

SpecScope == Init /\ [][NextScope]_vars

\* users who enroll before the gallery is filled, two photos that are processed once,
\* the deletion of the first, and merge passes
NextFold ==
    \/ \E img \in {PhotoE, PhotoF} :
          /\ Len(media) < MaxMediaFold
          /\ \A k \in DOMAIN media : media[k].image # img
          /\ upload_media(1, EventOwner(1), img)
    \/ \E c \in {<<1, CaptureX>>, <<2, CaptureY>>} :
          /\ Len(media) < MaxMediaFold
          /\ \A k \in DOMAIN media : media[k].owner_type = "user" /\ media[k].owner_id # c[1]
          /\ upload_face_capture(c[1], "center", c[2])
    \/ \E m \in 1..MaxMediaFold :
          m \in DOMAIN tasks /\ tasks[m] < MaxRunsFold /\ embed_media(m, "ok", <<1, 2>>)
    \/ \E m \in 1..MaxMediaFold :
          m \in DOMAIN media /\ media[m].image = PhotoE /\ delete_media(m, EventOwner(1))
    \/ run_merge_similar_clusters(1)

SpecFold == Init /\ [][NextFold]_vars

\* runs that can fail at each stage: enrollment captures and event photos
NextStages ==
    \/ \E img \in {PhotoB, PhotoD} :
          Len(media) < MaxMediaStages /\ upload_media(1, EventOwner(1), img)
    \/ \E u \in Users, img \in {CaptureA, CaptureB} :
          Len(media) < MaxMediaStages /\ upload_face_capture(u, "center", img)
    \/ \E m \in 1..MaxMediaStages, o \in StageOutcomes :
          m \in DOMAIN tasks /\ tasks[m] < MaxRunsStages /\ embed_media(m, o, <<1, 2>>)

SpecStages == Init /\ [][NextStages]_vars

-----------------------------------------------------------------------------
(* Properties of clustering and merging, checked under SpecCluster *)

\* members of cluster c that come from event (non-profile) media and are valid
EventMembers(c) ==
    {i \in DOMAIN embeddings :
        /\ embeddings[i].cluster_id = c
        /\ embeddings[i].media_id # 0
        /\ media[embeddings[i].media_id].owner_type = "event"
        /\ media[embeddings[i].media_id].usage_type \notin ProfileUsages
        /\ validate_embedding(embeddings[i].embedding)}

\* the stored centroid times the number of members is the sum of the members
IsMeanOf(cent, S) ==
    LET sum == VecSum(embeddings, S)
        n == Cardinality(S)
    IN  \A k \in 1..3 : cent.num[k] * n = sum[k] * cent.den

\* C1: every FaceCluster with at least one valid member embedding from event
\* (non-profile) media stores the arithmetic mean of exactly those members, after
\* any sequence of clustering, merge and batch operations
C1_CentroidIsMean ==
    \A c \in DOMAIN clusters :
        (clusters[c].alive /\ EventMembers(c) # {}) =>
            IsMeanOf(clusters[c].centroid, EventMembers(c))

\* a merge pass has just folded clusters and the survivor averages several
\* different member vectors
C1_Witness ==
    /\ last.op = "merge_similar_clusters"
    /\ last.merged # {}
    /\ \E c \in DOMAIN clusters :
          /\ clusters[c].alive
          /\ \E i, j \in EventMembers(c) :
                embeddings[i].embedding # embeddings[j].embedding
          /\ IsMeanOf(clusters[c].centroid, EventMembers(c))

AliveClusters(C) == {c \in DOMAIN C : C[c].alive}

\* C2: running merge_similar_clusters twice in a row on an event, the second run
\* deletes no cluster and reassigns no embedding
C2_SecondMergeChangesNothing ==
    [][(/\ last.op = "merge_similar_clusters"
        /\ last'.op = "merge_similar_clusters"
        /\ last'.e = last.e)
       => (/\ AliveClusters(clusters') = AliveClusters(clusters)
           /\ embeddings' = embeddings)]_vars

\* clusters of the event that had a valid centroid when the last merge pass started
StartClusters ==
    {c \in DOMAIN last.mgC :
        /\ last.mgC[c].alive
        /\ last.mgC[c].event_id = last.e
        /\ validate_embedding(last.mgC[c].centroid.num)}

\* similarity of the centroids of a and b at the start of the pass >= pct/100
StartSimGE(a, b, pct) ==
    CosGE(last.mgC[a].centroid.num, last.mgC[b].centroid.num, pct)

\* members of cluster c at the start of the pass
StartMembers(c) == {i \in DOMAIN last.mgE : last.mgE[i].cluster_id = c}

\* where the pass left the members that c had at its start; 0 is no cluster
Dest(c) == {embeddings[i].cluster_id : i \in StartMembers(c)}

\* C3: after a run of merge_similar_clusters, the former members of any
\* two clusters whose centroids had similarity >= 0.72 at the start of the run
\* share a single cluster_id
C3_SimilarPairsShareOneCluster ==
    last.mgRan =>
        \A a, b \in StartClusters :
            (a # b /\ StartSimGE(a, b, MergeThreshold)) =>
                \E c \in DOMAIN clusters : Dest(a) \cup Dest(b) \subseteq {c}

AllEmbeddingsClustered(m) ==
    LET rows == {i \in DOMAIN embeddings :
                    embeddings[i].media_id = m /\ Len(embeddings[i].embedding) > 0}
    IN  rows # {} /\ \A i \in rows : embeddings[i].cluster_id # 0

\* C5: cluster_embeddings_for_media, invoked for a media all of whose embeddings
\* have a cluster_id, creates and deletes no cluster and changes no cluster_id and
\* no centroid
C5_RerunChangesNothing ==
    [][\A m \in DOMAIN media :
          (/\ AllEmbeddingsClustered(m)
           /\ last'.op = "cluster_embeddings_for_media"
           /\ last'.m = m)
          => (/\ Len(clusters') = Len(clusters)
              /\ AliveClusters(clusters') = AliveClusters(clusters)
              /\ \A c \in AliveClusters(clusters) :
                    clusters'[c].centroid = clusters[c].centroid
              /\ \A i \in DOMAIN embeddings :
                    embeddings'[i].cluster_id = embeddings[i].cluster_id)]_vars

\* the last operation ran the loop of cluster_embeddings_for_media
ClusterLoopRan ==
    \/ last.op = "cluster_embeddings_for_media"
    \/ last.op = "embed_media" /\ last.outcome = "ok"

\* the valid unclustered embeddings of the media when the loop started, in id order
LoopRows ==
    SortedSeq({i \in DOMAIN last.preE :
                  /\ last.preE[i].media_id = last.m
                  /\ last.preE[i].cluster_id = 0
                  /\ validate_embedding(last.preE[i].embedding)})

\* the clusters the loop compares its k-th embedding with: those the event had
\* when the loop started, then those spawned for the embeddings before the k-th
KnownIds(k) ==
    (IF last.e # 0
     THEN SortedSeq({c \in DOMAIN last.preC :
                        last.preC[c].alive /\ last.preC[c].event_id = last.e})
     ELSE <<>>)
    \o SelectSeq([j \in 1..(k - 1) |-> IF last.trace[j].created
                                       THEN last.trace[j].cluster ELSE 0],
                 LAMBDA c : c # 0)

\* the centroid the loop holds for cluster c: the stored one, or the seed of a
\* cluster it has spawned
KnownCentroid(c) ==
    IF c \in DOMAIN last.preC THEN last.preC[c].centroid
    ELSE [num |-> last.preE[(CHOOSE t \in {last.trace[j] : j \in DOMAIN last.trace} :
                                t.created /\ t.cluster = c).emb].embedding,
          den |-> 1]

\* C7: for each valid unclustered embedding of the media, if the event has no
\* cluster yet or the best similarity to the existing centroids is below 0.65, one
\* new cluster is created and the embedding assigned to it; otherwise the
\* embedding is assigned to the best-matching existing cluster and none is created
C7_AssignOrSpawn ==
    ClusterLoopRan =>
        /\ Len(last.trace) = Len(LoopRows)
        /\ Len(last.mgC) - Len(last.preC)
             = Cardinality({k \in DOMAIN last.trace : last.trace[k].created})
        /\ \A k \in DOMAIN last.trace :
              LET t == last.trace[k]
                  vec == last.preE[t.emb].embedding
                  known == KnownIds(k)
                  near == {j \in 1..Len(known) :
                              CosGE(vec, KnownCentroid(known[j]).num, AssignmentThreshold)}
              IN  /\ t.emb = LoopRows[k]
                  /\ t.ids = known
                  /\ t.cents = [j \in 1..Len(known) |-> KnownCentroid(known[j])]
                  /\ last.mgE[t.emb].cluster_id = t.cluster
                  /\ IF near = {}
                     THEN /\ t.created
                          /\ t.cluster \notin DOMAIN last.preC
                          /\ \A j \in 1..Len(known) : known[j] # t.cluster
                          /\ last.mgC[t.cluster].alive
                          /\ last.mgC[t.cluster].event_id = last.e
                     ELSE /\ ~t.created
                          /\ \E j \in near :
                                /\ known[j] = t.cluster
                                /\ \A i \in 1..Len(known) :
                                      ~CosLess(vec, KnownCentroid(known[j]).num,
                                               KnownCentroid(known[i]).num)

\* a loop has spawned a cluster for one embedding and has assigned another to the
\* best of several clusters, which was not the first
C7_Witness ==
    /\ ClusterLoopRan
    /\ \E k \in DOMAIN last.trace : last.trace[k].created
    /\ \E k \in DOMAIN last.trace :
          /\ ~last.trace[k].created
          /\ Len(KnownIds(k)) > 1
          /\ last.trace[k].cluster # KnownIds(k)[1]

-----------------------------------------------------------------------------
(* Properties of identity matching, checked under SpecMatch *)

\* the valid enrollment embeddings of user u
Enrolled(u) ==
    {i \in DOMAIN embeddings :
        /\ embeddings[i].media_id # 0
        /\ media[embeddings[i].media_id].owner_type = "user"
        /\ media[embeddings[i].media_id].owner_id = u
        /\ media[embeddings[i].media_id].usage_type \in ProfileUsages
        /\ validate_embedding(embeddings[i].embedding)}

EnrolledUsers == {u \in Users : Enrolled(u) # {}}

\* the mean similarity of u's enrollment embeddings to centroid cent, as a fraction
MeanSim(u, cent) ==
    [t |-> SimSum(embeddings, Enrolled(u), cent.num), n |-> Cardinality(Enrolled(u))]

\* users whose mean similarity to cent is >= 0.72
Reaching(cent) ==
    {u \in EnrolledUsers : AvgGE(MeanSim(u, cent), cent, USER_MATCH_SIMILARITY)}

\* the last run of match_clusters_to_users changed the user of cluster c
UserChanged(c) == clusters[c].user_id # last.mtC[c].user_id

\* what that run emitted about cluster c
EmittedAbout(c) == SelectSeq(last.mtOut, LAMBDA n : n.cluster_id = c)

\* C8: match_clusters_to_users sets a cluster's user_id to U only if U has the
\* highest mean similarity over all of U's valid enrollment embeddings and that
\* mean is >= 0.72; when no user reaches 0.72 or none is enrolled, the user_id is
\* unchanged and nothing is emitted
C8_MatchOnlyBestAboveThreshold ==
    last.mtRan =>
        \A c \in DOMAIN clusters :
            LET cent == last.mtC[c].centroid
                U == clusters[c].user_id
            IN  /\ UserChanged(c) =>
                      /\ U \in Reaching(cent)
                      /\ \A V \in EnrolledUsers :
                            ~AvgLess(MeanSim(U, cent), MeanSim(V, cent))
                /\ Reaching(cent) = {} =>
                      /\ ~UserChanged(c)
                      /\ EmittedAbout(c) = <<>>

\* a run over an event photo has matched one cluster while two users are enrolled
C8_Witness ==
    /\ last.mtRan
    /\ last.e # 0
    /\ EnrolledUsers = Users
    /\ \E c \in DOMAIN clusters : UserChanged(c) /\ clusters[c].user_id \in Users

\* C9: match_clusters_to_users emits cluster_matched_to_user to the matched user
\* and cluster_user_identified to the event owner exactly when a cluster's user_id
\* changes
C9_NotificationsIffChange ==
    last.mtRan =>
        \A c \in DOMAIN clusters :
            EmittedAbout(c) =
                IF UserChanged(c)
                THEN <<Notification(clusters[c].user_id, "cluster_matched_to_user", last.m, c),
                       Notification(EventOwner(last.e), "cluster_user_identified", last.m, c)>>
                ELSE <<>>

\* C9, second half: a run for the same media right after a run, with the clusters
\* and enrollments unchanged, emits nothing
C9_RerunSilent ==
    [][(/\ last.op = "match_clusters_to_users"
        /\ last'.op = "match_clusters_to_users"
        /\ last'.m = last.m)
       => last'.mtOut = <<>>]_vars

-----------------------------------------------------------------------------
(* Properties of the rows that processing leaves, checked under Spec *)

\* C6: there is never more than one FaceEmbedding row for the same (media,
\* face-index) pair
C6_OneRowPerFace ==
    \A i, j \in DOMAIN embeddings :
        (/\ embeddings[i].media_id # 0
         /\ embeddings[i].idx >= 0
         /\ embeddings[i].media_id = embeddings[j].media_id
         /\ embeddings[i].idx = embeddings[j].idx)
        => i = j

\* C10: after the processing of an event media has completed, there is exactly one
\* FaceMatch row for each face detected in it
C10_FaceMatchPerFace ==
    (/\ last.op = "embed_media"
     /\ last.outcome = "ok"
     /\ last.e # 0)
    => \A k \in 1..Len(StoredFaces(media[last.m].image.faces)) :
          Cardinality({fm \in face_matches :
                          /\ fm.media_id = last.m
                          /\ fm.embedding_index = StoredFaces(media[last.m].image.faces)[k].idx})
            = 1

-----------------------------------------------------------------------------
(* Retroactive matching *)

RematchThreshold == 60

\* cosine_similarity(a, b) > pct/100, for pct > 0; no similarity with a zero vector
CosGT(a, b, pct) ==
    /\ Norm2(a) > 0
    /\ Norm2(b) > 0
    /\ Dot(a, b) > 0
    /\ SqDen(pct) * Dot(a, b) * Dot(a, b) > SqNum(pct) * Norm2(a) * Norm2(b)

\* cosine(a, b) < pct/100, the distance being 1 - cosine_similarity(a, b)
DistanceLess(a, b, pct) == CosGT(a, b, 100 - pct)

\* the value of cosine(a, b), kept as the sign and the square, in lowest terms,
\* of the similarity it is one minus of
cosine(a, b) ==
    LET d == Dot(a, b)
        n == Norm2(a) * Norm2(b)
        g == GCD(d * d, n)
    IN  [sgn |-> Sgn(d), num |-> (d * d) \div g, den |-> n \div g]

NoDistance == [sgn |-> 0, num |-> 0, den |-> 0]

FaceMatchRow(id, media_id, event_id, embedding_index, matched_user_id) ==
    [id |-> id, media_id |-> media_id, event_id |-> event_id,
     embedding_index |-> embedding_index, matched_user_id |-> matched_user_id,
     distance |-> NoDistance, is_participant |-> FALSE]

MediaEmbeddingRow(media_id, embs) ==
    [media_id |-> media_id, embeddings |-> embs,
     status |-> IF embs = <<>> THEN "pending" ELSE "completed", retry_count |-> 0]

\* the completed MediaEmbedding rows of the profile picture of user_id
UserEmbeddingRows(ME, M, user_id) ==
    {r \in ME : /\ r.media_id \in DOMAIN M
                /\ M[r.media_id].alive
                /\ M[r.media_id].owner_type = "user"
                /\ M[r.media_id].owner_id = user_id
                /\ M[r.media_id].usage_type = "profile_picture"
                /\ r.status = "completed"}

\* FaceMatch joined with MediaEmbedding on media_id: the unmatched rows of the events
UnmatchedFaces(FM, ME, event_ids) ==
    {fm \in FM : /\ fm.event_id \in event_ids
                 /\ fm.matched_user_id = 0
                 /\ \E me \in ME : me.media_id = fm.media_id /\ me.status = "completed"}

\* the vectors of the media of a FaceMatch row (media_id is unique in MediaEmbedding)
FaceVectors(ME, fm) == (CHOOSE me \in ME : me.media_id = fm.media_id).embeddings

\* a loop that does not look at the event of the rows
MatchingAnyEvent(FM, ME, event_ids, user_emb) ==
    {fm \in UnmatchedFaces(FM, ME, TwoEvents) :
        /\ FaceVectors(ME, fm) # <<>>
        /\ fm.embedding_index < Len(FaceVectors(ME, fm))
        /\ DistanceLess(user_emb, FaceVectors(ME, fm)[fm.embedding_index + 1],
                        RematchThreshold)}

\* the body of the loop over unmatched_faces: the rows that are given to the user
Matching(FM, ME, event_ids, user_emb) ==
    {fm \in UnmatchedFaces(FM, ME, event_ids) :
        /\ FaceVectors(ME, fm) # <<>>
        /\ fm.embedding_index < Len(FaceVectors(ME, fm))
        /\ DistanceLess(user_emb, FaceVectors(ME, fm)[fm.embedding_index + 1],
                        RematchThreshold)}

\* a summary that counts the media in place of the rows
SummaryByMedia(user_id, ev, event_id, hit) ==
    [to |-> user_id, ev |-> ev, m |-> 0, cid |-> 0, event_id |-> event_id,
     matched_count |-> Cardinality({fm.media_id : fm \in hit}),
     media_count |-> Cardinality({fm.media_id : fm \in hit})]

Summary(user_id, ev, event_id, hit) ==
    [to |-> user_id, ev |-> ev, m |-> 0, cid |-> 0, event_id |-> event_id,
     matched_count |-> Cardinality(hit),
     media_count |-> Cardinality({fm.media_id : fm \in hit})]

\* retroactive_match_user_in_event(session, user_id, event_id)
retroactive_match_user_in_event(FM, ME, M, user_id, event_id) ==
    With(UserEmbeddingRows(ME, M, user_id), LAMBDA refs :
      IF refs = {} \/ (CHOOSE r \in refs : TRUE).embeddings = <<>>
      THEN [FM |-> FM, out |-> <<>>, raised |-> FALSE]
      ELSE
        With((CHOOSE r \in refs : TRUE).embeddings[1], LAMBDA user_emb :
        With(Matching(FM, ME, {event_id}, user_emb), LAMBDA hit :
          [FM |-> {IF fm \in hit
                   THEN [fm EXCEPT !.matched_user_id = user_id,
                                   !.distance = cosine(user_emb,
                                       FaceVectors(ME, fm)[fm.embedding_index + 1]),
                                   !.is_participant = TRUE]
                   ELSE fm : fm \in FM},
           out |-> IF hit = {} THEN <<>>
                   ELSE <<Summary(user_id, "retroactive_matches_found", event_id, hit)>>,
           raised |-> FALSE])))

\* retroactive_match_all_events(session, user_id): the select of the single column
\* EventParticipant.event_id yields plain integers, so ep.event_id raises as soon
\* as there is one approved participation, before any row is read or changed
retroactive_match_all_events(FM, ME, M, P, user_id) ==
    With(UserEmbeddingRows(ME, M, user_id), LAMBDA refs :
      IF refs = {} \/ (CHOOSE r \in refs : TRUE).embeddings = <<>>
      THEN [FM |-> FM, out |-> <<>>, raised |-> FALSE]
      ELSE IF {p \in P : p.user_id = user_id /\ p.status = "approved"} = {}
      THEN [FM |-> FM, out |-> <<>>, raised |-> FALSE]
      ELSE [FM |-> FM, out |-> <<>>, raised |-> TRUE])

\* a retroactive match is requested for a user in an event (0: in all their events)
enqueue_retroactive_match(user_id, event_id) ==
    /\ Len(retro_tasks) < MaxRetroTasks
    /\ retro_tasks' = Append(retro_tasks, [user_id |-> user_id, event_id |-> event_id,
                                           runs |-> 0, state |-> "queued"])
    /\ emitted' = <<>>
    /\ last' = [NoOp EXCEPT !.op = "enqueue_retroactive_match", !.u = user_id, !.e = event_id]
    /\ UNCHANGED <<jobs, http, media, tasks, embeddings, clusters, face_matches, media_embeddings,
                   participants, faces_nulled>>

\* the task after one more execution: self.retry re-queues it until max_retries
AfterRun(t, raised) ==
    [t EXCEPT !.runs = @ + 1,
              !.state = IF ~raised THEN "done"
                        ELSE IF t.runs >= MaxRetries THEN "failed" ELSE "queued"]

RetroOutcomes == {"ok", "error"}

\* one execution of a retroactive task; "error" is an exception before the commit
RunRetro(k, op, r) ==
    /\ face_matches' = r.FM
    /\ emitted' = r.out
    /\ retro_tasks' = [retro_tasks EXCEPT ![k] = AfterRun(@, r.raised)]
    /\ last' = [NoOp EXCEPT !.op = op, !.m = k, !.u = retro_tasks[k].user_id,
                            !.e = retro_tasks[k].event_id,
                            !.outcome = IF r.raised THEN "raised" ELSE "ok"]
    /\ UNCHANGED <<jobs, http, media, tasks, embeddings, clusters, media_embeddings, participants,
                   faces_nulled>>

retroactive_match_task(k, outcome) ==
    /\ k \in DOMAIN retro_tasks
    /\ retro_tasks[k].state = "queued"
    /\ retro_tasks[k].event_id # 0
    /\ \E r \in {IF outcome = "error"
                 THEN [FM |-> face_matches, out |-> <<>>, raised |-> TRUE]
                 ELSE retroactive_match_user_in_event(face_matches, media_embeddings, media,
                          retro_tasks[k].user_id, retro_tasks[k].event_id)} :
           RunRetro(k, "retroactive_match_task", r)

retroactive_match_all_events_task(k, outcome) ==
    /\ k \in DOMAIN retro_tasks
    /\ retro_tasks[k].state = "queued"
    /\ retro_tasks[k].event_id = 0
    /\ \E r \in {IF outcome = "error"
                 THEN [FM |-> face_matches, out |-> <<>>, raised |-> TRUE]
                 ELSE retroactive_match_all_events(face_matches, media_embeddings, media,
                          participants, retro_tasks[k].user_id)} :
           RunRetro(k, "retroactive_match_all_events_task", r)

\* faces and reference vectors of the stored MediaEmbedding rows
RefA == <<1, 0, 0>>
RefB == <<0, 1, 0>>
FaceA == <<2, 1, 0>>
FaceB == <<1, 3, 0>>
FaceC == <<0, 0, 1>>
FaceD == <<3, 1, 0>>

\* two users with a profile picture, one gallery media in each of two events
RematchMedia ==
    With(save_file_to_db(<<>>, <<>>, "user", 1, "profile_picture", 1, "center", CaptureA),
         LAMBDA r1 :
    With(save_file_to_db(r1.M, r1.E, "user", 2, "profile_picture", 2, "center", CaptureB),
         LAMBDA r2 :
    With(save_file_to_db(r2.M, r2.E, "event", 1, "gallery", 1, "", PhotoA), LAMBDA r3 :
         save_file_to_db(r3.M, r3.E, "event", 2, "gallery", 1, "", PhotoA))))

InitRematch ==
    /\ media = RematchMedia.M
    /\ embeddings = RematchMedia.E
    /\ tasks = <<0, 0, 0, 0>>
    /\ clusters = <<>>
    /\ \E ref1 \in {<<>>, <<RefA>>}, faces3 \in {<<>>, <<FaceA, FaceB>>, <<FaceD, FaceC>>, <<FaceB>>} :
           media_embeddings = {MediaEmbeddingRow(1, ref1), MediaEmbeddingRow(2, <<RefB>>),
                               MediaEmbeddingRow(3, faces3), MediaEmbeddingRow(4, <<FaceA>>)}
    /\ \E u1 \in {0, 2}, u3 \in {0, 1} :
           face_matches = {FaceMatchRow(1, 3, 1, 0, u1), FaceMatchRow(2, 3, 1, 1, 0),
                           FaceMatchRow(3, 4, 2, 0, u3)}
    /\ \E st \in {"approved", "pending"} :
           participants = {[user_id |-> 1, event_id |-> 1, status |-> "approved"],
                           [user_id |-> 1, event_id |-> 2, status |-> st]}
    /\ retro_tasks = <<>>
    /\ http = NoCall
    /\ jobs = {}
    /\ emitted = <<>>
    /\ last = NoOp
    /\ faces_nulled \in BOOLEAN

NextRematch ==
    \/ \E u \in Users, e \in TwoEvents \cup {0} : enqueue_retroactive_match(u, e)
    \/ \E k \in 1..MaxRetroTasks, o \in RetroOutcomes : retroactive_match_task(k, o)
    \/ \E k \in 1..MaxRetroTasks, o \in RetroOutcomes : retroactive_match_all_events_task(k, o)

SpecRematch == InitRematch /\ [][NextRematch]_vars

\* two worker processes: the select of the unmatched rows (face_rematch.py l.37-46,
\* with the loop's decisions, which depend only on what was read) and the commit of
\* the rows the loop has changed (l.69) as two steps, each task in its own session
SelectedRows(k) ==
    {j \in jobs : j.task = k}

retro_select(k) ==
    /\ k \in DOMAIN retro_tasks
    /\ retro_tasks[k].state = "queued"
    /\ retro_tasks[k].event_id # 0
    /\ SelectedRows(k) = {}
    /\ \E r \in {retroactive_match_user_in_event(face_matches, media_embeddings, media,
                     retro_tasks[k].user_id, retro_tasks[k].event_id)} :
           jobs' = jobs \cup {[task |-> k, rows |-> r.FM \ face_matches, out |-> r.out]}
    /\ emitted' = <<>>
    /\ last' = [NoOp EXCEPT !.op = "retro_select", !.m = k, !.u = retro_tasks[k].user_id,
                            !.e = retro_tasks[k].event_id]
    /\ UNCHANGED <<http, media, tasks, embeddings, clusters, rematch_vars, faces_nulled>>

\* session.commit(): one UPDATE by primary key for every row the loop has changed
retro_commit(k) ==
    /\ k \in DOMAIN retro_tasks
    /\ retro_tasks[k].state = "queued"
    /\ \E j \in SelectedRows(k) :
           /\ face_matches' = {IF \E w \in j.rows : w.id = fm.id
                               THEN CHOOSE w \in j.rows : w.id = fm.id
                               ELSE fm : fm \in face_matches}
           /\ emitted' = j.out
           /\ jobs' = jobs \ {j}
    /\ retro_tasks' = [retro_tasks EXCEPT ![k] = AfterRun(@, FALSE)]
    /\ last' = [NoOp EXCEPT !.op = "retroactive_match_task", !.m = k,
                            !.u = retro_tasks[k].user_id, !.e = retro_tasks[k].event_id,
                            !.outcome = "ok"]
    /\ UNCHANGED <<http, media, tasks, embeddings, clusters, media_embeddings, participants,
                   faces_nulled>>

NextRematchRace ==
    \/ \E u \in Users, e \in TwoEvents : enqueue_retroactive_match(u, e)
    \/ \E k \in 1..MaxRetroTasks : retro_select(k)
    \/ \E k \in 1..MaxRetroTasks : retro_commit(k)

SpecRematchRace == InitRematch /\ [][NextRematchRace]_vars

-----------------------------------------------------------------------------
(* Properties of retroactive matching *)

\* the reference vectors of a user: the first vector of a completed profile embedding
ReferenceVectors(u) ==
    {r.embeddings[1] : r \in {x \in UserEmbeddingRows(media_embeddings, media, u) :
                                 x.embeddings # <<>>}}

\* the vectors stored for the face of a FaceMatch row at its embedding_index
FaceVectorAt(fm) ==
    {me.embeddings[fm.embedding_index + 1] :
        me \in {x \in media_embeddings : /\ x.media_id = fm.media_id
                                         /\ fm.embedding_index < Len(x.embeddings)}}

\* fm is an unmatched row of event e whose face is closer than 0.6 to the reference of u
CloseUnmatched(fm, u, e) ==
    /\ fm.event_id = e
    /\ fm.matched_user_id = 0
    /\ \E ref \in ReferenceVectors(u), v \in FaceVectorAt(fm) :
           DistanceLess(ref, v, RematchThreshold)

NewlyMatched(old, new, u) ==
    {fm \in new : /\ fm.matched_user_id = u
                  /\ \E o \in old : o.id = fm.id /\ o.matched_user_id = 0}

\* C12: every execution of a retroactive match sends one summary to the user, carrying
\* the number of rows it has matched, when that number is positive, and sends
\* nothing when it has matched no row
C12_OneSummaryIffMatched ==
    [][(last'.op \in {"retroactive_match_task", "retroactive_match_all_events_task"})
       => IF NewlyMatched(face_matches, face_matches', last'.u) = {}
          THEN emitted' = <<>>
          ELSE /\ Len(emitted') = 1
               /\ emitted'[1].to = last'.u
               /\ emitted'[1].matched_count
                    = Cardinality(NewlyMatched(face_matches, face_matches', last'.u))]_vars

\* a run has matched two rows and sent one summary that says so
C12_Witness ==
    /\ last.op = "retroactive_match_task"
    /\ Len(emitted) = 1
    /\ emitted[1].matched_count = 2
    /\ Cardinality({fm \in face_matches : fm.matched_user_id = last.u
                                           /\ fm.event_id = last.e}) >= 2

-----------------------------------------------------------------------------
(* Properties of the extraction run and its task *)

\* the rows of media m that hold a vector
VectorRows(m) ==
    {i \in DOMAIN embeddings : embeddings[i].media_id = m /\ embeddings[i].embedding # NoVec}

C14_FaceCountIsRowCount ==
    (last.op = "embed_media" /\ last.outcome = "ok")
    => media[last.m].face_count = Cardinality(VectorRows(last.m))

\* C16: an execution of embed_media that has done all its work without an error is
\* not followed by another execution of the task for the same media
C16_NoRerunAfterSuccess ==
    [][(last.op = "embed_media" /\ last.outcome = "ok")
       => ~(last'.op = "embed_media" /\ last'.m = last.m)]_vars

\* C17: when safe_request has given up, the error is the exception that the task
\* layer catches
C17_NetworkErrorReachesTask ==
    (last.op = "embed_media" /\ last.outcome = "network")
    => last.exc = "NetworkError"

\* C18: when a run stops after the commit of the rows and before clustering, the
\* rows it has stored are completed and have no cluster
C18_StoredRowsCompleted ==
    (last.op = "embed_media" /\ last.outcome = "late_error")
    => \A i \in (Len(last.preE) + 1)..Len(embeddings) :
          /\ embeddings[i].status = "completed"
          /\ embeddings[i].cluster_id = 0

-----------------------------------------------------------------------------
(* safe_request *)

MaxAttempts == 3

\* what one attempt of requests.request can end in: a 2xx answer, a 2xx answer whose
\* body is {"error": ...}, a 4xx or 5xx answer, a timeout, a connection error,
\* another exception of requests
Responses == {"ok", "error_body", "client_error", "server_error", "timeout",
              "connection_error", "other_error"}

\* the attempts that end in NetworkError: requests.Timeout, requests.ConnectionError
\* and the requests.HTTPError that raise_for_status raises for a 4xx or 5xx answer
NetworkErrors == {"client_error", "server_error", "timeout", "connection_error"}

\* one attempt of safe_request under its retry decorator
safe_request_attempt ==
    /\ http.state = "calling"
    /\ http.attempts < Len(http.script)
    /\ LET n == http.attempts + 1
           resp == http.script[n]
       IN  /\ http' = [http EXCEPT
                         !.attempts = n,
                         !.state = IF resp \in NetworkErrors
                                   THEN IF n >= MaxAttempts THEN "raised_NetworkError"
                                        ELSE "calling"
                                   ELSE IF resp = "other_error" THEN "raised_other"
                                   ELSE "returned"]
           /\ last' = [NoOp EXCEPT !.op = "safe_request", !.outcome = resp]
    /\ emitted' = <<>>
    /\ UNCHANGED <<jobs, media, tasks, embeddings, clusters, rematch_vars, faces_nulled>>

\* a call of safe_request, with what each of its possible attempts will meet
InitRequest ==
    /\ media = <<>>
    /\ tasks = <<>>
    /\ embeddings = <<>>
    /\ clusters = <<>>
    /\ face_matches = {}
    /\ media_embeddings = {}
    /\ participants = {}
    /\ retro_tasks = <<>>
    /\ jobs = {}
    /\ http \in {[script |-> sc, attempts |-> 0, state |-> "calling"] :
                    sc \in [1..MaxAttempts -> Responses]}
    /\ emitted = <<>>
    /\ last = NoOp
    /\ faces_nulled \in BOOLEAN

NextRequest == safe_request_attempt

SpecRequest == InitRequest /\ [][NextRequest]_vars

\* the failures the retry policy is meant for
Transient == {"timeout", "connection_error", "server_error"}

\* C15: safe_request makes at most 3 attempts, makes another attempt only after a
\* transient failure (timeout, connection error, 5xx), and has raised once its last
\* attempt has failed
C15_RetryOnlyTransient ==
    /\ http.attempts <= MaxAttempts
    /\ \A k \in 1..(http.attempts - 1) : http.script[k] \in Transient
    /\ (http.state = "calling" /\ http.attempts >= 1) => http.script[http.attempts] \in Transient
    /\ (http.attempts = MaxAttempts /\ http.script[MaxAttempts] \in NetworkErrors)
          => http.state = "raised_NetworkError"

-----------------------------------------------------------------------------
(* Invariants of the stored rows *)

\* a vector that is present and has only finite components
FiniteVector(v) ==
    /\ v # NoVec
    /\ \A k \in DOMAIN v : v[k] # NonFinite

\* C19: every FaceEmbedding row that is completed or belongs to a cluster holds a
\* non-empty vector of finite values: a row that fails validate_embedding is never
\* completed and never made a member of a cluster
C19_CompletedOrClusteredIsValid ==
    \A i \in DOMAIN embeddings :
        (/\ embeddings[i].media_id # 0
         /\ \/ embeddings[i].status = "completed"
            \/ embeddings[i].cluster_id # 0)
        => FiniteVector(embeddings[i].embedding)

\* a photo whose answer held an empty and a non-finite entry has been processed: its
\* valid faces are completed members of clusters, its vector-less row is not
C19_Witness ==
    \E i, j \in DOMAIN embeddings :
        /\ embeddings[i].media_id # 0
        /\ embeddings[i].media_id = embeddings[j].media_id
        /\ BadVec \in {media[embeddings[i].media_id].image.faces[k] :
                          k \in DOMAIN media[embeddings[i].media_id].image.faces}
        /\ embeddings[i].status = "completed"
        /\ embeddings[i].cluster_id # 0
        /\ embeddings[j].embedding = NoVec
        /\ embeddings[j].status = "pending"
        /\ embeddings[j].cluster_id = 0

\* C20: every FaceEmbedding row that belongs to a cluster points to a live cluster of
\* the event that owns its media (of no event, for a media that no event owns), so
\* no cluster has members from two events
C20_ClusterOfOwnEvent ==
    \A i \in DOMAIN embeddings :
        (embeddings[i].media_id # 0 /\ embeddings[i].cluster_id # 0)
        => /\ embeddings[i].cluster_id \in DOMAIN clusters
           /\ clusters[embeddings[i].cluster_id].alive
           /\ clusters[embeddings[i].cluster_id].event_id = MediaEvent(embeddings[i].media_id)

\* faces of both events and of a profile picture are clustered, each in a cluster
\* of its own scope
C20_Witness ==
    /\ \A e \in TwoEvents \cup {0} :
          \E i \in DOMAIN embeddings :
             /\ embeddings[i].media_id # 0
             /\ embeddings[i].cluster_id # 0
             /\ MediaEvent(embeddings[i].media_id) = e
    /\ \E i, j \in DOMAIN embeddings :
          /\ embeddings[i].media_id # 0
          /\ embeddings[j].media_id # 0
          /\ MediaEvent(embeddings[i].media_id) = 1
          /\ MediaEvent(embeddings[j].media_id) = 2
          /\ embeddings[i].embedding = embeddings[j].embedding
          /\ embeddings[i].cluster_id # 0
          /\ embeddings[j].cluster_id # 0

-----------------------------------------------------------------------------
(* Properties of enrollment media *)

\* C21: no row extracted from the enrollment media of a user has a cluster, and no
\* cluster is created for such a row (a cluster that belongs to no event)
C21_EnrollmentNeverClustered ==
    /\ \A i \in DOMAIN embeddings :
          (/\ embeddings[i].media_id # 0
           /\ media[embeddings[i].media_id].owner_type = "user"
           /\ media[embeddings[i].media_id].usage_type \in ProfileUsages)
          => embeddings[i].cluster_id = 0
    /\ \A c \in DOMAIN clusters : clusters[c].alive => clusters[c].event_id # 0

-----------------------------------------------------------------------------
(* Two runs of generate_embeddings_background on different workers: a run is three
   steps, and the steps of two runs can alternate *)

JobOf(m) == CHOOSE j \in jobs : j.m = m

\* the run up to the commit of the rows and the embedding_completed notification
store_embeddings(m) ==
    /\ m \in DOMAIN media
    /\ media[m].alive
    /\ ~media[m].image.err
    /\ \A j \in jobs : j.m # m
    /\ embeddings' = InsertEmbeddings(embeddings, m, media[m].image.faces)
    /\ media' = [media EXCEPT ![m].face_count = Len(StoredFaces(media[m].image.faces))]
    /\ tasks' = [tasks EXCEPT ![m] = @ + 1]
    /\ jobs' = jobs \cup {[m |-> m, state |-> "stored", rows |-> <<>>, ids |-> <<>>,
                           cents |-> <<>>, spawned |-> {}]}
    /\ emitted' = <<Notification(media[m].uploaded_by, "embedding_completed", m, 0)>>
    /\ last' = [NoOp EXCEPT !.op = "store_embeddings", !.m = m, !.e = MediaEvent(m)]
    /\ UNCHANGED <<clusters, rematch_vars, http, faces_nulled>>

\* cluster_embeddings_for_media, the queries: the unclustered rows of the media and
\* the clusters of its event with their centroids
load_clusters(m) ==
    /\ \E j \in jobs : j.m = m /\ j.state = "stored"
    /\ jobs' = (jobs \ {JobOf(m)}) \cup
               {[JobOf(m) EXCEPT
                   !.state = "loaded",
                   !.rows = Unclustered(embeddings, m),
                   !.ids = IF MediaEvent(m) # 0 THEN EventClusters(clusters, MediaEvent(m))
                           ELSE <<>>,
                   !.cents = [k \in 1..Len(EventClusters(clusters, MediaEvent(m))) |->
                                 clusters[EventClusters(clusters, MediaEvent(m))[k]].centroid]]}
    /\ emitted' = <<>>
    /\ last' = [NoOp EXCEPT !.op = "load_clusters", !.m = m, !.e = MediaEvent(m)]
    /\ UNCHANGED <<media, tasks, embeddings, clusters, rematch_vars, http, faces_nulled>>

\* the rows of a trace for which a cluster was created
Spawned(trace) == {trace[k].emb : k \in {x \in DOMAIN trace : trace[x].created}}

\* cluster_embeddings_for_media from the loop on, with the clusters that were
\* loaded, then match_clusters_to_users
cluster_loaded(m) ==
    /\ \E j \in jobs : j.m = m /\ j.state = "loaded"
    /\ \E r \in {IF JobOf(m).rows = <<>>
                 THEN [E |-> embeddings, C |-> clusters, upd |-> {}, trace |-> <<>>]
                 ELSE cluster_loop(JobOf(m).rows, embeddings, clusters, JobOf(m).ids,
                                   JobOf(m).cents, {}, <<>>, MediaEvent(m))} :
       \E mg \in {IF JobOf(m).rows = <<>> \/ MediaEvent(m) = 0
                  THEN [E |-> r.E, C |-> UpdateCentroids(r.E, r.C, SortedSeq(r.upd)),
                        merged |-> {}]
                  ELSE merge_similar_clusters(r.E, UpdateCentroids(r.E, r.C, SortedSeq(r.upd)),
                                              MediaEvent(m))} :
       \E mt \in {match_clusters_to_users(mg.E, mg.C, m, <<1, 2>>)} :
          /\ embeddings' = mg.E
          /\ clusters' = mt.C
          /\ emitted' = mt.out
          /\ jobs' = (jobs \ {JobOf(m)}) \cup
                     {[JobOf(m) EXCEPT !.state = "done", !.spawned = Spawned(r.trace)]}
          /\ last' = [NoOp EXCEPT !.op = "cluster_loaded", !.m = m, !.e = MediaEvent(m),
                                  !.outcome = "ok", !.trace = r.trace, !.merged = mg.merged]
    /\ UNCHANGED <<media, tasks, rematch_vars, http, faces_nulled>>

NextRace ==
    \/ \E e \in Events, img \in {PhotoE, PhotoG, PhotoF} :
          Len(media) < MaxMediaRace /\ upload_media(e, EventOwner(e), img)
    \/ \E m \in 1..MaxMediaRace : store_embeddings(m)
    \/ \E m \in 1..MaxMediaRace : load_clusters(m)
    \/ \E m \in 1..MaxMediaRace : cluster_loaded(m)

SpecRace == Init /\ [][NextRace]_vars

\* rows a and b are faces of one person for the clustering loop: a run that finds the
\* cluster of one of them assigns the other to it
SamePerson(a, b) ==
    CosGE(embeddings[a].embedding, embeddings[b].embedding, AssignmentThreshold)

\* C22: when the runs for two media of an event have alternated, each has created a
\* cluster for a face of the same person, and both have finished with their merge
\* passes, the two faces are in one cluster
C22_DuplicatesReconciled ==
    \A j1, j2 \in jobs :
        (j1.m # j2.m /\ j1.state = "done" /\ j2.state = "done")
        => \A a \in j1.spawned, b \in j2.spawned :
              SamePerson(a, b)
              => /\ embeddings[a].cluster_id # 0
                 /\ embeddings[a].cluster_id = embeddings[b].cluster_id

-----------------------------------------------------------------------------
(* Properties of a run for a missing media *)

\* C23: an execution of embed_media for a media that does not exist changes no row,
\* sends no notification, and is not followed by another execution of the task
C23_MissingMediaAborts ==
    [][/\ (last'.op = "embed_media" /\ last'.outcome = "not_found")
          => /\ UNCHANGED <<media, embeddings, clusters, face_matches, media_embeddings>>
             /\ emitted' = <<>>
       /\ (last.op = "embed_media" /\ last.outcome = "not_found")
          => ~(last'.op = "embed_media" /\ last'.m = last.m)]_vars

-----------------------------------------------------------------------------
(* retry_failed_embeddings *)

MaxRetryCount == 3

\* the values of the status columns named by the models
Statuses == {"pending", "processing", "completed", "failed"}

\* the periodic job: every failed MediaEmbedding with retries left whose media exists
\* is marked and counted; the call that follows raises before a task is created
\* (generate_embeddings_background is called without its session) and the except
\* clause stores the message only
retry_failed_embeddings ==
    /\ \E r \in media_embeddings : r.status = "failed" /\ r.retry_count < MaxRetryCount
    /\ media_embeddings' =
          {IF /\ r.status = "failed"
              /\ r.retry_count < MaxRetryCount
              /\ r.media_id \in DOMAIN media
              /\ media[r.media_id].alive
           THEN [r EXCEPT !.status = "retrying", !.retry_count = @ + 1]
           ELSE r : r \in media_embeddings}
    /\ emitted' = <<>>
    /\ last' = [NoOp EXCEPT !.op = "retry_failed_embeddings"]
    /\ UNCHANGED <<media, tasks, embeddings, clusters, face_matches, participants,
                   retro_tasks, http, jobs, faces_nulled>>

\* the media of the rematch scenario, the tracking rows of the two event media in
\* any status and with any number of retries
InitRetry ==
    /\ media = RematchMedia.M
    /\ embeddings = RematchMedia.E
    /\ tasks = <<0, 0, 0, 0>>
    /\ clusters = <<>>
    /\ face_matches = {}
    /\ \E s3 \in Statuses, s4 \in Statuses, n3 \in 0..MaxRetryCount, n4 \in 0..MaxRetryCount :
          media_embeddings =
             {[MediaEmbeddingRow(3, IF s3 = "completed" THEN <<FaceA>> ELSE <<>>)
                  EXCEPT !.status = s3, !.retry_count = n3],
              [MediaEmbeddingRow(4, IF s4 = "completed" THEN <<FaceB>> ELSE <<>>)
                  EXCEPT !.status = s4, !.retry_count = n4]}
    /\ participants = {}
    /\ retro_tasks = <<>>
    /\ http = NoCall
    /\ jobs = {}
    /\ emitted = <<>>
    /\ last = NoOp
    /\ faces_nulled \in BOOLEAN

NextRetry == retry_failed_embeddings

SpecRetry == InitRetry /\ [][NextRetry]_vars

\* C24: the status of every FaceEmbedding row and of every MediaEmbedding row is one
\* of pending, processing, completed, failed
C24_StatusInDomain ==
    /\ \A i \in DOMAIN embeddings :
          embeddings[i].media_id # 0 => embeddings[i].status \in Statuses
    /\ \A r \in media_embeddings : r.status \in Statuses

-----------------------------------------------------------------------------
(* Properties of a merge pass, from the tables at its start (last.mgE, last.mgC) *)

\* the rows that have a cluster in table E
Clustered(E) == {i \in DOMAIN E : E[i].media_id # 0 /\ E[i].cluster_id # 0}

\* C25: after a merge pass that has folded clusters, every folded cluster B is gone,
\* an earlier cluster A of the event holds every row that was in A or in B, as many
\* rows have a cluster as before, and no row points to a deleted cluster
C25_FoldMovesMembers ==
    (last.mgRan /\ last.merged # {})
    => /\ \A b \in last.merged :
             /\ ~clusters[b].alive
             /\ \E a \in DOMAIN last.mgC :
                   /\ a < b
                   /\ clusters[a].alive
                   /\ \A i \in DOMAIN last.mgE :
                         last.mgE[i].cluster_id \in {a, b} => embeddings[i].cluster_id = a
       /\ Cardinality(Clustered(embeddings)) = Cardinality(Clustered(last.mgE))
       /\ \A i \in Clustered(embeddings) : clusters[embeddings[i].cluster_id].alive

-----------------------------------------------------------------------------
(* The user of a surviving cluster *)

\* the cluster that b was folded into: the earliest cluster that outlives the pass
\* and whose start centroid had similarity >= 0.72 to the one of b
SurvivorOf(b) ==
    CHOOSE a \in StartClusters :
        /\ a < b
        /\ a \notin last.merged
        /\ StartSimGE(a, b, MergeThreshold)
        /\ \A x \in StartClusters :
              (x < a /\ x \notin last.merged) => ~StartSimGE(x, b, MergeThreshold)

FoldedInto(a) == {b \in last.merged : SurvivorOf(b) = a}

\* the clusters folded into a that had a user at the start of the pass
FoldedWithUser(a) == {b \in FoldedInto(a) : last.mgC[b].user_id # 0}

\* C26: after a merge pass, a cluster that other clusters were folded into has the
\* user it had before if it had one, and otherwise the user of the first folded
\* cluster that had one
C26_SurvivorKeepsOrInheritsUser ==
    (last.op = "merge_similar_clusters" /\ last.merged # {})
    => \A a \in StartClusters \ last.merged :
          FoldedInto(a) # {}
          => clusters[a].user_id =
                IF last.mgC[a].user_id # 0 THEN last.mgC[a].user_id
                ELSE IF FoldedWithUser(a) = {} THEN 0
                ELSE last.mgC[CHOOSE b \in FoldedWithUser(a) :
                                 \A x \in FoldedWithUser(a) : b <= x].user_id

\* a pass has folded a cluster that had a user into one that had another user
C26_Witness ==
    /\ last.op = "merge_similar_clusters"
    /\ \E a \in StartClusters \ last.merged :
          /\ last.mgC[a].user_id # 0
          /\ \E b \in FoldedInto(a) :
                /\ last.mgC[b].user_id # 0
                /\ last.mgC[b].user_id # last.mgC[a].user_id
          /\ clusters[a].user_id = last.mgC[a].user_id

\* a pass has folded a cluster that had a user into one that had none
C26_WitnessInherited ==
    /\ last.op = "merge_similar_clusters"
    /\ \E a \in StartClusters \ last.merged :
          /\ last.mgC[a].user_id = 0
          /\ FoldedWithUser(a) # {}
          /\ clusters[a].user_id # 0

-----------------------------------------------------------------------------
(* The batch re-clustering of an event, from the tables at its start (last.preE, last.preC) *)

BatchRan == last.op = "cluster_unclustered_faces_in_event"

\* the rows of non-profile media of the event that had no cluster at the start
NullRowsOfEvent ==
    {i \in DOMAIN last.preE :
        /\ last.preE[i].media_id # 0
        /\ media[last.preE[i].media_id].owner_type = "event"
        /\ media[last.preE[i].media_id].owner_id = last.e
        /\ media[last.preE[i].media_id].usage_type \notin ProfileUsages
        /\ last.preE[i].cluster_id = 0}

\* the rows the run looked at, and those among them without a neighbour within eps
Candidates == {i \in NullRowsOfEvent : FiniteVector(last.preE[i].embedding)}

Noise ==
    {i \in Candidates :
        \A j \in Candidates \ {i} :
            ~CosGE(last.preE[i].embedding, last.preE[j].embedding, 100 - DbscanEps)}

\* one new cluster of the event per group, holding every member of the group
OneClusterPerGroup ==
    /\ Len(clusters) = Len(last.preC) + Len(last.groups)
    /\ \A g \in DOMAIN last.groups :
          /\ clusters[Len(last.preC) + g].alive
          /\ clusters[Len(last.preC) + g].event_id = last.e
          /\ \A i \in last.groups[g] : embeddings[i].cluster_id = Len(last.preC) + g

OnlyNullRowsChange ==
    \A i \in DOMAIN embeddings :
        embeddings[i].cluster_id # last.preE[i].cluster_id => i \in NullRowsOfEvent

NoiseStaysNull == \A i \in Noise : embeddings[i].cluster_id = 0

\* C27: a run of cluster_unclustered_faces_in_event leaves one new cluster of the
\* event per density group with every member of the group in it, changes cluster_id
\* only on rows of the event's non-profile media that had none, and leaves noise rows
\* without a cluster
C27_BatchClustersGroups ==
    BatchRan => (OneClusterPerGroup /\ OnlyNullRowsChange /\ NoiseStaysNull)

C27_Groups == BatchRan => OneClusterPerGroup
C27_Only == BatchRan => OnlyNullRowsChange
C27_Noise == BatchRan => NoiseStaysNull
C27_Witness == BatchRan /\ Len(last.groups) >= 1 /\ Noise # {}

-----------------------------------------------------------------------------
(* The stages of one run of generate_embeddings_background *)

\* the rows a step has inserted
NewRows == (Len(embeddings) + 1)..Len(embeddings')

\* the rows and the face count of the media are there and embedding_completed comes first
StoredFirst ==
    /\ \A i \in NewRows : embeddings'[i].media_id = last'.m
    /\ media'[last'.m].face_count = Cardinality(NewRows)
    /\ emitted' # <<>>
    /\ Head(emitted').event = "embedding_completed"
    /\ \A k \in 2..Len(emitted') : emitted'[k].event # "embedding_completed"

\* a failed run emits embedding_failed last and nothing between the two
FailedLast ==
    /\ Len(emitted') = 2
    /\ emitted'[2].event = "embedding_failed"

\* at the start of the merge pass every new row has a cluster whose centroid is the
\* mean of its members
AssignedBeforeMerge ==
    /\ DOMAIN last'.mgE = DOMAIN embeddings'
    /\ \A i \in NewRows :
          /\ last'.mgE[i].cluster_id \in DOMAIN last'.mgC
          /\ last'.mgC[last'.mgE[i].cluster_id].centroid =
                MeanOf(last'.mgE, {k \in DOMAIN last'.mgE :
                                      last'.mgE[k].cluster_id = last'.mgE[i].cluster_id})

\* no cluster has got a user
NoUserAssigned ==
    \A c \in DOMAIN clusters' :
        clusters'[c].user_id = (IF c \in DOMAIN clusters THEN clusters[c].user_id ELSE 0)

\* no live cluster has got a user other than the one of a cluster folded into it
NoUserMatched ==
    \A c \in {k \in DOMAIN clusters' : clusters'[k].alive} :
        \/ clusters'[c].user_id = (IF c \in DOMAIN clusters THEN clusters[c].user_id ELSE 0)
        \/ \E b \in last'.merged : clusters'[c].user_id = last'.mgC[b].user_id

\* C28: one run of generate_embeddings_background goes through its stages in order
\* and keeps what a stage has committed: the rows and face_count are stored and
\* embedding_completed is emitted first; a run that fails before clustering leaves the
\* new rows without a cluster and the clusters as they were; a run that reaches the
\* merge pass has every new row in a cluster with a recomputed centroid; a run that
\* fails before the merge pass leaves exactly that assignment; a run that fails before
\* matching leaves the merged clusters without a newly matched user; in a run that succeeds the
\* matching changes nothing but the user of clusters as the merge pass left them
C28_StagesInOrder ==
    [][(last'.op = "embed_media" /\ last'.outcome \in StageOutcomes)
       => /\ StoredFirst
          /\ last'.outcome # "ok" => FailedLast
          /\ last'.outcome = "late_error"
               => /\ clusters' = clusters
                  /\ \A i \in NewRows : embeddings'[i].cluster_id = 0
                  /\ \A i \in DOMAIN embeddings : embeddings'[i] = embeddings[i]
          /\ last'.outcome # "late_error" => AssignedBeforeMerge
          /\ last'.outcome = "merge_error"
               => /\ embeddings' = last'.mgE
                  /\ clusters' = last'.mgC
                  /\ NoUserAssigned
                  /\ \A c \in DOMAIN clusters : clusters'[c].alive = clusters[c].alive
          /\ last'.outcome = "match_error"
               => /\ NoUserMatched
                  /\ \A c \in last'.merged : ~clusters'[c].alive
          /\ last'.outcome = "ok"
               => /\ last'.mtRan
                  /\ DOMAIN clusters' = DOMAIN last'.mtC
                  /\ \A c \in DOMAIN clusters' :
                        [clusters'[c] EXCEPT !.user_id = 0] = [last'.mtC[c] EXCEPT !.user_id = 0]
                  /\ \A c \in last'.merged : ~clusters'[c].alive]_vars

\* a run that failed before matching after a merge pass that folded a cluster
C28_Witness ==
    /\ last.op = "embed_media"
    /\ last.outcome = "match_error"
    /\ last.merged # {}
    /\ media[last.m].face_count >= 2

C28_WitnessMatched ==
    /\ last.op = "embed_media"
    /\ last.outcome = "ok"
    /\ last.mtOut # <<>>
    /\ \E c \in DOMAIN clusters : clusters[c].alive /\ clusters[c].user_id # 0

-----------------------------------------------------------------------------
(* The user of a FaceMatch row *)

\* C29: once a FaceMatch row has a matched_user_id, no step changes it, whatever
\* retroactive tasks run and however the tasks of two users are interleaved
C29_MatchedUserNeverChanges ==
    [][\A fm \in face_matches :
          fm.matched_user_id # 0
          => \E fm2 \in face_matches' :
                fm2.id = fm.id /\ fm2.matched_user_id = fm.matched_user_id]_vars

\* C30: every FaceMatch row with is_participant set has a matched user who is an
\* approved participant of the event of the row
C30_ParticipantFlagMeansApproved ==
    \A fm \in face_matches :
        fm.is_participant
        => \E p \in participants :
              /\ p.user_id = fm.matched_user_id
              /\ p.event_id = fm.event_id
              /\ p.status = "approved"

====
